---- MODULE Spec2Model ----
(***************************************************************************)
(* A model of src/streamlit_app.py: the rare-disease question-answering    *)
(* script.  Python strings are TLA+ strings (TLC evaluates Len, Head,      *)
(* Tail, SubSeq and \o on them), dictionaries are functions, lists are     *)
(* sequences.                                                              *)
(***************************************************************************)
EXTENDS Integers, Sequences, FiniteSets, TLC

VARIABLES
    mim2gene,              \* the lines of data/mim2gene.txt
    kg_definitional_data,  \* the knowledge dictionary (URI -> record)
    mim_gene_data,         \* the gene table built by load_resources
    loaded,                \* load_resources has run
    history,               \* st.session_state.history
    user_query,            \* the query being / last handled
    disease,               \* result of extract_disease_from_query
    identifier,            \* result of extract_gene_or_mim_from_query
    docs,                  \* result of vectorstore.similarity_search
    evidence_list,         \* the citation list of the last run
    blazegraph_context,    \* result of get_blazegraph_context
    mim_gene_context,      \* outcome of get_mim_gene_context
    prompt_input,          \* the prompt assembled by PROMPT.format
    llm_outcome,           \* what llm.invoke did in the last run
    run                    \* how the last script run ended

vars == <<mim2gene, kg_definitional_data, mim_gene_data, loaded, history,
          user_query, disease, identifier, docs, evidence_list,
          blazegraph_context, mim_gene_context, prompt_input, llm_outcome, run>>

(***************************************************************************)
(* Python values.  None and "not computed yet" are marker strings that no  *)
(* input of the model contains.                                            *)
(***************************************************************************)
None == "<None>"

Unset == "<unset>"

\* Python truthiness of an optional string: None and "" are falsy.
Truthy(x) == x # None /\ x # ""

(***************************************************************************)
(* String helpers: str.lower, str.upper, the `in` operator, joins.         *)
(***************************************************************************)
UpperToLower ==
    [A |-> "a", B |-> "b", C |-> "c", D |-> "d", E |-> "e", F |-> "f",
     G |-> "g", H |-> "h", I |-> "i", J |-> "j", K |-> "k", L |-> "l",
     M |-> "m", N |-> "n", O |-> "o", P |-> "p", Q |-> "q", R |-> "r",
     S |-> "s", T |-> "t", U |-> "u", V |-> "v", W |-> "w", X |-> "x",
     Y |-> "y", Z |-> "z"]

LowerToUpper ==
    [a |-> "A", b |-> "B", c |-> "C", d |-> "D", e |-> "E", f |-> "F",
     g |-> "G", h |-> "H", i |-> "I", j |-> "J", k |-> "K", l |-> "L",
     m |-> "M", n |-> "N", o |-> "O", p |-> "P", q |-> "Q", r |-> "R",
     s |-> "S", t |-> "T", u |-> "U", v |-> "V", w |-> "W", x |-> "X",
     y |-> "Y", z |-> "Z"]

UpperLetters == DOMAIN UpperToLower

LowerLetters == DOMAIN LowerToUpper

Digits == {"0", "1", "2", "3", "4", "5", "6", "7", "8", "9"}

CharAt(s, i) == SubSeq(s, i, i)

LowerChar(c) == IF c \in UpperLetters THEN UpperToLower[c] ELSE c

UpperChar(c) == IF c \in LowerLetters THEN LowerToUpper[c] ELSE c

RECURSIVE Lower(_)
Lower(s) == IF s = "" THEN "" ELSE LowerChar(Head(s)) \o Lower(Tail(s))

RECURSIVE Upper(_)
Upper(s) == IF s = "" THEN "" ELSE UpperChar(Head(s)) \o Upper(Tail(s))

\* Python's `p in s` on strings.
In(p, s) == \E i \in 1..(Len(s) - Len(p) + 1) : SubSeq(s, i, i + Len(p) - 1) = p

RECURSIVE Concat(_)
Concat(parts) == IF parts = <<>> THEN "" ELSE Head(parts) \o Concat(Tail(parts))

SeqsUpTo(S, n) == UNION {[1..k -> S] : k \in 0..n}

Min(S) == CHOOSE m \in S : \A o \in S : m <= o

(***************************************************************************)
(* ---- SUPPORTED DISEASES ----  (the dict, in insertion order)            *)
(***************************************************************************)
disease_name_to_ordo_uri ==
    << [name |-> "Cystic Fibrosis", uri |-> "http://www.orpha.net/ORDO/Orphanet_586"],
       [name |-> "Huntington's Disease", uri |-> "http://www.orpha.net/ORDO/Orphanet_418"],
       [name |-> "Duchenne Muscular Dystrophy", uri |-> "http://www.orpha.net/ORDO/Orphanet_683"],
       [name |-> "Spinal Muscular Atrophy", uri |-> "http://www.orpha.net/ORDO/Orphanet_84"],
       [name |-> "Hemophilia A", uri |-> "http://www.orpha.net/ORDO/Orphanet_448"],
       [name |-> "Hemophilia B", uri |-> "http://www.orpha.net/ORDO/Orphanet_447"],
       [name |-> "Gaucher Disease", uri |-> "http://www.orpha.net/ORDO/Orphanet_355"],
       [name |-> "Pompe Disease", uri |-> "http://www.orpha.net/ORDO/Orphanet_365"],
       [name |-> "Neurofibromatosis type 1", uri |-> "http://www.orpha.net/ORDO/Orphanet_636"],
       [name |-> "Prader-Willi Syndrome", uri |-> "http://www.orpha.net/ORDO/Orphanet_739"],
       [name |-> "Angelman Syndrome", uri |-> "http://www.orpha.net/ORDO/Orphanet_526"],
       [name |-> "Rett Syndrome", uri |-> "http://www.orpha.net/ORDO/Orphanet_802"],
       [name |-> "Fragile X Syndrome", uri |-> "http://www.orpha.net/ORDO/Orphanet_908"],
       [name |-> "Phenylketonuria", uri |-> "http://www.orpha.net/ORDO/Orphanet_716"],
       [name |-> "Alpha-1 Antitrypsin Deficiency", uri |-> "http://www.orpha.net/ORDO/Orphanet_60"],
       [name |-> "Marfan Syndrome", uri |-> "http://www.orpha.net/ORDO/Orphanet_284"],
       [name |-> "Ehlers-Danlos Syndrome, Hypermobile Type", uri |-> "http://www.orpha.net/ORDO/Orphanet_98253"],
       [name |-> "Sickle Cell Anemia", uri |-> "http://www.orpha.net/ORDO/Orphanet_232"],
       [name |-> "Thalassemia Major", uri |-> "http://www.orpha.net/ORDO/Orphanet_821"],
       [name |-> "Crigler-Najjar Syndrome Type 1", uri |-> "http://www.orpha.net/ORDO/Orphanet_792"] >>

DISEASE_LIST == [i \in DOMAIN disease_name_to_ordo_uri |-> disease_name_to_ordo_uri[i].name]

\* disease_name_to_ordo_uri.get(disease)
OrdoUri(d) ==
    IF \E i \in DOMAIN disease_name_to_ordo_uri : disease_name_to_ordo_uri[i].name = d
    THEN disease_name_to_ordo_uri[
             CHOOSE i \in DOMAIN disease_name_to_ordo_uri : disease_name_to_ordo_uri[i].name = d].uri
    ELSE None

(***************************************************************************)
(* extract_disease_from_query                                              *)
(***************************************************************************)
\* d.lower() for each d of DISEASE_LIST
DiseaseLower == [i \in DOMAIN DISEASE_LIST |-> Lower(DISEASE_LIST[i])]

\* The loop `for d in DISEASE_LIST: if d.lower() in query_lower: return d`,
\* from index i on; None when the loop falls through.
RECURSIVE FirstDiseaseIn(_, _)
FirstDiseaseIn(query_lower, i) ==
    IF i > Len(DISEASE_LIST) THEN None
    ELSE IF In(DiseaseLower[i], query_lower) THEN DISEASE_LIST[i]
    ELSE FirstDiseaseIn(query_lower, i + 1)

\* The chain of loose synonyms that follows the loop.
LooseSynonym(query_lower) ==
    IF In("huntington", query_lower) THEN "Huntington's Disease"
    ELSE IF In("sma", query_lower) \/ In("spinal muscular atrophy", query_lower)
        THEN "Spinal Muscular Atrophy"
    ELSE IF In("nf1", query_lower) THEN "Neurofibromatosis type 1"
    ELSE IF In("aatd", query_lower) \/ In("alpha-1 antitrypsin", query_lower)
        THEN "Alpha-1 Antitrypsin Deficiency"
    ELSE IF In("fxs", query_lower) \/ In("fragile x", query_lower)
        THEN "Fragile X Syndrome"
    ELSE IF In("pku", query_lower) \/ In("phenylketonuria", query_lower)
        THEN "Phenylketonuria"
    ELSE None

\* A mutant: the query is not lower-cased before matching.
extract_disease_case_sensitive(query) ==
    LET d == FirstDiseaseIn(query, 1)
    IN  IF d # None THEN d ELSE LooseSynonym(query)

extract_disease_from_query(query) ==
    LET query_lower == Lower(query)
        d == FirstDiseaseIn(query_lower, 1)
    IN  IF d # None THEN d ELSE LooseSynonym(query_lower)

(***************************************************************************)
(* load_resources, part 3: parsing mim2gene.txt into mim_gene_data         *)
(***************************************************************************)
Whitespace == {" ", "\t", "\n", "\r"}

RECURSIVE LStrip(_)
LStrip(s) == IF s # "" /\ Head(s) \in Whitespace THEN LStrip(Tail(s)) ELSE s

RECURSIVE RStrip(_)
RStrip(s) ==
    IF s # "" /\ CharAt(s, Len(s)) \in Whitespace
    THEN RStrip(SubSeq(s, 1, Len(s) - 1))
    ELSE s

\* str.strip()
Strip(s) == RStrip(LStrip(s))

RECURSIVE SplitAcc(_, _, _, _)
SplitAcc(s, sep, cur, acc) ==
    IF s = "" THEN Append(acc, cur)
    ELSE IF Head(s) = sep THEN SplitAcc(Tail(s), sep, "", Append(acc, cur))
    ELSE SplitAcc(Tail(s), sep, cur \o Head(s), acc)

\* str.split(sep) for a one-character separator
Split(s, sep) == SplitAcc(s, sep, "", <<>>)

StartsWith(s, p) == Len(s) >= Len(p) /\ SubSeq(s, 1, Len(p)) = p

\* dict.get(key, default)
DictGet(d, key, default) == IF key \in DOMAIN d THEN d[key] ELSE default

\* A mutant of DictPut: setdefault, an existing key keeps its value.
DictPutIfAbsent(d, key, value) == IF key \in DOMAIN d THEN d ELSE (key :> value) @@ d

\* d[key] = value
DictPut(d, key, value) == (key :> value) @@ d

\* The body of `for line in f`: one line's effect on the table.
LoadLine(table, line) ==
    IF StartsWith(line, "#") THEN table
    ELSE LET parts == Split(Strip(line), "\t")
         IN  IF Len(parts) >= 4
             THEN LET mim_number == parts[1]
                      mim_entry_type == parts[2]
                      entrez_gene_id == IF parts[3] # "" THEN parts[3] ELSE None
                      approved_gene_symbol == IF parts[4] # "" THEN parts[4] ELSE None
                      record == [mim_number |-> mim_number,
                                 mim_entry_type |-> mim_entry_type,
                                 entrez_gene_id |-> entrez_gene_id,
                                 approved_gene_symbol |-> approved_gene_symbol]
                      t1 == IF Truthy(approved_gene_symbol)
                            THEN DictPut(table, Upper(approved_gene_symbol), record)
                            ELSE table
                  IN  IF Truthy(entrez_gene_id) /\ entrez_gene_id \notin DOMAIN t1
                      THEN DictPut(t1, entrez_gene_id, record)
                      ELSE t1
             ELSE table

RECURSIVE LoadLines(_, _)
LoadLines(table, lines) ==
    IF lines = <<>> THEN table
    ELSE LoadLines(LoadLine(table, Head(lines)), Tail(lines))

\* mim_gene_data as load_resources returns it for a file of these lines
load_resources(lines) == LoadLines(<<>>, lines)

(***************************************************************************)
(* extract_gene_or_mim_from_query                                          *)
(*                                                                         *)
(* Both patterns are wrapped in \b...\b and match word characters only, so *)
(* a match is always a whole maximal run of [A-Za-z0-9_]; re.findall       *)
(* returns the matching runs in query order.                               *)
(***************************************************************************)
Letters == UpperLetters \cup LowerLetters

WordChars == Letters \cup Digits \cup {"_"}

RECURSIVE WordsAcc(_, _, _)
WordsAcc(s, cur, acc) ==
    IF s = "" THEN (IF cur # "" THEN Append(acc, cur) ELSE acc)
    ELSE IF Head(s) \in WordChars THEN WordsAcc(Tail(s), cur \o Head(s), acc)
    ELSE WordsAcc(Tail(s), "", IF cur # "" THEN Append(acc, cur) ELSE acc)

\* the maximal runs of word characters of s, in order
Words(s) == WordsAcc(s, "", <<>>)

AllIn(s, chars) == \A i \in 1..Len(s) : CharAt(s, i) \in chars

MimDigits == 6

\* \b\d{6}\b
MatchesMimPattern(w) == Len(w) = MimDigits /\ AllIn(w, Digits)

\* \b[A-Z][A-Z0-9]{2,}\b without re.IGNORECASE: a mutant of the pattern below
MatchesUpperSymbolPattern(w) ==
    /\ Len(w) >= 3
    /\ Head(w) \in UpperLetters
    /\ AllIn(Tail(w), UpperLetters \cup Digits)

\* \b[A-Z][A-Z0-9]{2,}\b with re.IGNORECASE
MatchesSymbolPattern(w) ==
    /\ Len(w) >= 3
    /\ Head(w) \in Letters
    /\ AllIn(Tail(w), Letters \cup Digits)

\* re.findall(r'\b\d{6}\b', query)
FindAllMim(query) == SelectSeq(Words(query), MatchesMimPattern)

\* re.findall(r'\b[A-Z][A-Z0-9]{2,}\b', query, re.IGNORECASE)
FindAllSymbol(query) == SelectSeq(Words(query), MatchesSymbolPattern)

\* `for match in matches: if match in mim_gene_data: return match`
RECURSIVE FirstMimKey(_)
FirstMimKey(matches) ==
    IF matches = <<>> THEN None
    ELSE IF Head(matches) \in DOMAIN mim_gene_data THEN Head(matches)
    ELSE FirstMimKey(Tail(matches))

\* `for match in matches: if match.upper() in mim_gene_data: return match.upper()`
RECURSIVE FirstSymbolKey(_)
FirstSymbolKey(matches) ==
    IF matches = <<>> THEN None
    ELSE IF Upper(Head(matches)) \in DOMAIN mim_gene_data THEN Upper(Head(matches))
    ELSE FirstSymbolKey(Tail(matches))

extract_gene_or_mim_from_query(query) ==
    LET m == FirstMimKey(FindAllMim(query))
    IN  IF m # None THEN m ELSE FirstSymbolKey(FindAllSymbol(query))

(***************************************************************************)
(* get_blazegraph_context and get_mim_gene_context                         *)
(***************************************************************************)
NoKgData == "No specific rare disease definitional data found in knowledge graph."

NoMimData == "No specific gene or MIM data found in mim2gene.txt."

\* A mutant of the test `if kg_data:` below: `if kg_data is not None:`.
KgDataPresent(ordo_uri) == ordo_uri \in DOMAIN kg_definitional_data

\* `if kg_data:` with kg_data = kg_definitional_data.get(ordo_uri): the entry
\* exists and is a non-empty dict.
KgDataTruthy(ordo_uri) ==
    /\ ordo_uri \in DOMAIN kg_definitional_data
    /\ DOMAIN kg_definitional_data[ordo_uri] # {}

KgBlock(kg_data) ==
    "Disease Name: " \o DictGet(kg_data, "comment", DictGet(kg_data, "label", "N/A")) \o "\n"
    \o "URI: " \o DictGet(kg_data, "uri", "N/A") \o "\n"
    \o "Description: " \o DictGet(kg_data, "comment", "N/A") \o "\n"
    \o "DB Xref: " \o DictGet(kg_data, "dbXref", "N/A") \o "\n"
    \o "Parent Class: " \o DictGet(kg_data, "parentLabel", "N/A")

get_blazegraph_context(query) ==
    LET d == extract_disease_from_query(query)
    IN  IF ~Truthy(d) THEN NoKgData
        ELSE LET ordo_uri == OrdoUri(d)
             IN  IF KgDataTruthy(ordo_uri)
                 THEN KgBlock(kg_definitional_data[ordo_uri])
                 ELSE NoKgData

\* The outcome of a call: a returned string, or the exception it raised.
Returned(s) == [raised |-> FALSE, value |-> s]

Raised(e) == [raised |-> TRUE, value |-> e]

\* Python's `a + b` in a chain of string concatenations: adding None to a str
\* raises TypeError, and an exception raised earlier in the chain propagates.
StrAdd(a, b) ==
    IF a.raised THEN a
    ELSE IF b = None THEN Raised("TypeError")
    ELSE Returned(a.value \o b)

MimBlock(gene_info) ==
    LET s1 == StrAdd(Returned("MIM Number: "), DictGet(gene_info, "mim_number", "N/A"))
        s2 == StrAdd(s1, "\n")
        s3 == StrAdd(s2, "MIM Entry Type: ")
        s4 == StrAdd(s3, DictGet(gene_info, "mim_entry_type", "N/A"))
        s5 == StrAdd(s4, "\n")
        s6 == StrAdd(s5, "Entrez Gene ID: ")
        s7 == StrAdd(s6, DictGet(gene_info, "entrez_gene_id", "N/A"))
        s8 == StrAdd(s7, "\n")
        s9 == StrAdd(s8, "Approved Gene Symbol: ")
    IN  StrAdd(s9, DictGet(gene_info, "approved_gene_symbol", "N/A"))

get_mim_gene_context(query) ==
    LET id == extract_gene_or_mim_from_query(query)
    IN  IF Truthy(id) /\ id \in DOMAIN mim_gene_data
        THEN MimBlock(mim_gene_data[id])
        ELSE Returned(NoMimData)

(***************************************************************************)
(* ---- LLM + PROMPT ----                                                  *)
(***************************************************************************)
RECURSIVE Join(_, _)
Join(parts, sep) ==
    IF parts = <<>> THEN ""
    ELSE IF Len(parts) = 1 THEN parts[1]
    ELSE parts[1] \o sep \o Join(Tail(parts), sep)

disease_list_display == Join(DISEASE_LIST, ", ")

\* The template text.  The source writes "2-3 sentence" with an en dash, which
\* a TLA+ string cannot hold; it is a hyphen here.
prompt_template ==
    "You are a helpful assistant specialized in rare diseases. "
    \o "You only answer questions about the following diseases: " \o disease_list_display \o ". "
    \o "If asked about anything else, reply: "
    \o "'Sorry, I can only answer questions about these 20 rare diseases: " \o disease_list_display \o ".'\n\n"
    \o "For supported questions:\n"
    \o "- Start with a 2-3 sentence summary (TL;DR).\n"
    \o "- Follow with a comprehensive, structured answer using clear headings, bullet points, and explanations.\n"
    \o "- Do not cite PubMed IDs (PMIDs) in your answer. The actual PMIDs will be shown separately in the Sources section.\n"
    \o "- If you do not know the answer from the provided context, say so and do not make up information.\n\n"
    \o "Context from Scientific Abstracts:\n"
    \o "{context}\n\n"
    \o "Structured Knowledge Graph Context (from Blazegraph):\n"
    \o "{blazegraph_context}\n\n"
    \o "Gene and MIM Context (from mim2gene.txt):\n"
    \o "{mim_gene_context}\n\n"
    \o "Question: {question}\n"
    \o "Answer:\n"

IndexOf(c, s) ==
    IF \E i \in 1..Len(s) : CharAt(s, i) = c
    THEN Min({i \in 1..Len(s) : CharAt(s, i) = c})
    ELSE 0

\* PromptTemplate.from_template: the template split into literal text and
\* {name} fields, in order.
RECURSIVE ParseTemplate(_)
ParseTemplate(t) ==
    LET open == IndexOf("{", t)
    IN  IF open = 0 THEN << [kind |-> "text", text |-> t] >>
        ELSE LET rest == SubSeq(t, open + 1, Len(t))
                 close == IndexOf("}", rest)
             IN  << [kind |-> "text", text |-> SubSeq(t, 1, open - 1)],
                    [kind |-> "field", text |-> SubSeq(rest, 1, close - 1)] >>
                 \o ParseTemplate(SubSeq(rest, close + 1, Len(rest)))

PROMPT == ParseTemplate(prompt_template)

\* PROMPT.format(**kwargs): every field replaced by its argument, once; the
\* arguments are not scanned again.
Format(kwargs) ==
    Concat([i \in DOMAIN PROMPT |->
               IF PROMPT[i].kind = "field" THEN kwargs[PROMPT[i].text] ELSE PROMPT[i].text])

\* A mutant of the call at PROMPT.format: the question argument is passed the
\* retrieved context.
PromptArgsQuestionSwapped(context, bg, mim, question) ==
    [context |-> context, blazegraph_context |-> bg,
     mim_gene_context |-> mim, question |-> context]

\* The keyword arguments of the PROMPT.format call.
PromptArgs(context, bg, mim, question) ==
    [context |-> context, blazegraph_context |-> bg,
     mim_gene_context |-> mim, question |-> question]

(***************************************************************************)
(* ---- CHAT INPUT + MAIN QA LOGIC ----                                    *)
(***************************************************************************)
K == 10

TitleCut == 100

\* context = "\n\n".join([d.page_content for d in docs])
Context(ds) == Join([i \in DOMAIN ds |-> ds[i].page_content], "\n\n")

\* A mutant of EvidenceEntry's guard: every document gets an entry.
EveryDocumentListed(d) == TRUE

\* `if pmid and title`, with pmid, title = d.metadata.get(.., "")
HasPmidAndTitle(d) ==
    /\ DictGet(d.metadata, "pmid", "") # ""
    /\ DictGet(d.metadata, "title", "") # ""

\* f"- PMID: {pmid}, Title: {title[:100]}..."
EvidenceEntry(d) ==
    LET pmid == DictGet(d.metadata, "pmid", "")
        title == DictGet(d.metadata, "title", "")
    IN  "- PMID: " \o pmid \o ", Title: "
        \o SubSeq(title, 1, IF Len(title) < TitleCut THEN Len(title) ELSE TitleCut)
        \o "..."

\* the evidence_list loop
RECURSIVE EvidenceList(_)
EvidenceList(ds) ==
    IF ds = <<>> THEN <<>>
    ELSE (IF HasPmidAndTitle(Head(ds)) THEN <<EvidenceEntry(Head(ds))>> ELSE <<>>)
         \o EvidenceList(Tail(ds))

\* A mutant of AnswerText: the error's description alone.
AnswerTextBare(outcome) == outcome.value

\* try: answer_text = llm.invoke(..).content  except Exception as e:
\*     answer_text = f"An error occurred: {e}"
AnswerText(outcome) ==
    IF outcome.raised THEN "An error occurred: " \o outcome.value ELSE outcome.value

\* A mutant of AppendMessage: the history is rebuilt from the new message.
ReplaceByMessage(h, m) == <<m>>

\* st.session_state.history.append(m)
AppendMessage(h, m) == Append(h, m)

UserMessage(q) == [role |-> "user", content |-> q]

AssistantMessage(answer_text, evidence, q) ==
    [role |-> "assistant", content |-> answer_text, evidence |-> evidence, question |-> q]

NotCalled == [raised |-> FALSE, value |-> Unset]

(***************************************************************************)
(* Inputs                                                                  *)
(***************************************************************************)
MaxParts == 2

MaxLines == 2

MaxDocs == 2

MaxHistory == 4

\* Pieces of query text: disease names in several letter cases, the loose
\* synonyms, and filler ("pla" \o "sma" is "plasma").
DiseaseFragments ==
    {"Cystic Fibrosis", "HEMOPHILIA A", "hemophilia b", "Thalassemia Major",
     "Huntington", "'s Disease", "SMA", "pla", "nf1", "AATD", "alpha-1 antitrypsin",
     "FXS", "Fragile X", " syndrome", "pku", "What is ", " and ", "?", "Marfan"}

DiseaseQueries ==
    {Concat(parts) : parts \in SeqsUpTo(DiseaseFragments, MaxParts)}
    \cup {"What is " \o DISEASE_LIST[i] \o "?" : i \in DOMAIN DISEASE_LIST}
    \cup {Upper(DISEASE_LIST[i]) : i \in DOMAIN DISEASE_LIST}

\* Lines of a mim2gene.txt: MIM number, entry type, Entrez gene id, approved
\* symbol and (sometimes) an Ensembl id, tab-separated.
GeneLines ==
    {"# MIM Number\tMIM Entry Type\tEntrez Gene ID\tApproved Gene Symbol\n",
     "602421\tgene\t1080\tCFTR\tENSG00000001626\n",
     "300377\tgene\t100506\tDmd\n",
     "600354\tgene\t100506\tSMN1\n",
     "602422\tgene\t222222\tCFTR\n",
     "613004\tgene\t\tHTT\n",
     "219700\tphenotype\t333333\t\tENSG00000000002\n",
     "100050\tpredominantly phenotypes\t\t\n",
     "300841\tgene\t2157\tF8\n",
     "604982\tgene\t55670\t1080\n"}

GeneFiles == SeqsUpTo(GeneLines, MaxLines)

GeneQueries ==
    {"", "What does CFTR do?", "what does cftr do?", "Is Dmd a gene", "dmd",
     "MIM 602421", "gene 100506 please", "cftr or 100506", "HTT", "htt repeats",
     "entry 333333", "x100506", "CFTR_1", "F8 deficiency", "id 1080", "smn1, CFTR",
     "1005060", "222222"}

KgUris == {OrdoUri("Cystic Fibrosis"), OrdoUri("Hemophilia A"), "http://www.orpha.net/ORDO/Orphanet_1"}

\* Entries of the knowledge dictionary: complete, partial, and empty.
KgEntries ==
    {[label |-> "Cystic fibrosis", comment |-> "A rare genetic disorder.",
      uri |-> "http://www.orpha.net/ORDO/Orphanet_586", dbXref |-> "OMIM:219700",
      parentLabel |-> "Rare genetic disease"],
     [label |-> "Hemophilia A"],
     <<>>}

\* The dictionaries: any subset of KgUris, each with any of the entries.
KgDictionaries == UNION {[present -> KgEntries] : present \in SUBSET KgUris}

KgQueries ==
    {"What is hemophilia A?", "cystic fibrosis treatment", "Marfan syndrome",
     "what is the weather", "PKU diet", "CYSTIC FIBROSIS and hemophilia a"}

LongTitle ==
    "A randomized, double-blind, placebo-controlled trial of gene therapy in "
    \o "adults with severe hemophilia A: five-year follow-up"

Corpus ==
    {[page_content |-> "CFTR modulators improve lung function.",
      metadata |-> [pmid |-> "31697873", title |-> "CFTR modulator therapy"]],
     [page_content |-> "An abstract without a PubMed id.",
      metadata |-> [title |-> "Untitled"]],
     [page_content |-> "Gene therapy in hemophilia A.",
      metadata |-> [pmid |-> "28000000", title |-> LongTitle]]}

\* vectorstore.similarity_search(user_query, k=10): some documents of the
\* index, at most k of them, in order of similarity.
Retrievals ==
    {ds \in SeqsUpTo(Corpus, MaxDocs) :
        /\ Len(ds) <= K
        /\ \A i, j \in DOMAIN ds : i # j => ds[i] # ds[j]}

\* llm.invoke: an answer, or an exception with its description.
LlmOutcomes ==
    {Returned("Hemophilia A is an X-linked bleeding disorder."),
     Raised("Connection error.")}

SessionQueries ==
    {"What is hemophilia A?", "what does cftr do?", "HTT repeats", "{context} {question}"}

SessionFile ==
    << "# MIM Number\tMIM Entry Type\tEntrez Gene ID\tApproved Gene Symbol\n",
       "602421\tgene\t1080\tCFTR\tENSG00000001626\n",
       "613004\tgene\t\tHTT\n" >>

SessionKg ==
    (OrdoUri("Hemophilia A") :> [label |-> "Hemophilia A", comment |-> "A bleeding disorder."])

(***************************************************************************)
(* The session: the script's run on a chat input, and the reset button     *)
(***************************************************************************)
NoResources ==
    /\ mim2gene = <<>>
    /\ kg_definitional_data = <<>>
    /\ mim_gene_data = <<>>
    /\ loaded = FALSE

NoSession ==
    /\ history = <<>>
    /\ docs = <<>>
    /\ evidence_list = <<>>
    /\ prompt_input = Unset
    /\ llm_outcome = NotCalled
    /\ run = "idle"

\* The process after its first script run: resources loaded, empty history.
Init ==
    /\ mim2gene = SessionFile
    /\ kg_definitional_data = SessionKg
    /\ mim_gene_data = load_resources(SessionFile)
    /\ loaded = TRUE
    /\ user_query = None
    /\ disease = Unset
    /\ identifier = Unset
    /\ blazegraph_context = Unset
    /\ mim_gene_context = NotCalled
    /\ NoSession

\* `if user_query:` ... to the end of the script, for chat input q, with what
\* the similarity search returned and what llm.invoke did.  get_mim_gene_context
\* raising ends the run where it is raised: nothing catches it.
HandleQuery(q, retrieved, outcome) ==
    LET h1 == AppendMessage(history, UserMessage(q))
        context == Context(retrieved)
        evidence == EvidenceList(retrieved)
        bg == get_blazegraph_context(q)
        mim == get_mim_gene_context(q)
        answer_text == AnswerText(outcome)
    IN  /\ Len(history) + 2 <= MaxHistory
        /\ user_query' = q
        /\ docs' = retrieved
        /\ evidence_list' = evidence
        /\ blazegraph_context' = bg
        /\ mim_gene_context' = mim
        /\ IF mim.raised
           THEN /\ history' = h1
                /\ prompt_input' = Unset
                /\ llm_outcome' = NotCalled
                /\ run' = "crashed"
           ELSE /\ prompt_input' = Format(PromptArgs(context, bg, mim.value, q))
                /\ llm_outcome' = outcome
                /\ history' = AppendMessage(h1, AssistantMessage(answer_text, evidence, q))
                /\ run' = IF outcome.raised THEN "llm_error" ELSE "answered"
        /\ UNCHANGED <<mim2gene, kg_definitional_data, mim_gene_data, loaded,
                       disease, identifier>>

\* The "Start New Chat" button: the history is emptied and the script reruns
\* with no chat input.
StartNewChat ==
    /\ history' = <<>>
    /\ user_query' = None
    /\ docs' = <<>>
    /\ evidence_list' = <<>>
    /\ blazegraph_context' = Unset
    /\ mim_gene_context' = NotCalled
    /\ prompt_input' = Unset
    /\ llm_outcome' = NotCalled
    /\ run' = "reset"
    /\ UNCHANGED <<mim2gene, kg_definitional_data, mim_gene_data, loaded,
                   disease, identifier>>

Next ==
    \/ \E q \in SessionQueries, retrieved \in Retrievals, outcome \in LlmOutcomes :
          HandleQuery(q, retrieved, outcome)
    \/ StartNewChat

Spec == Init /\ [][Next]_vars

(***************************************************************************)
(* extract_disease_from_query on its own                                   *)
(***************************************************************************)
InitDisease ==
    /\ user_query \in DiseaseQueries
    /\ disease = Unset
    /\ identifier = Unset
    /\ blazegraph_context = Unset
    /\ mim_gene_context = NotCalled
    /\ NoResources
    /\ NoSession

ExtractDisease ==
    /\ disease = Unset
    /\ disease' = extract_disease_from_query(user_query)
    /\ UNCHANGED <<mim2gene, kg_definitional_data, mim_gene_data, loaded, history,
                   user_query, identifier, docs, evidence_list, blazegraph_context,
                   mim_gene_context, prompt_input, llm_outcome, run>>

SpecDisease == InitDisease /\ [][ExtractDisease]_vars

(***************************************************************************)
(* get_blazegraph_context on its own, over the knowledge dictionaries      *)
(***************************************************************************)
InitKg ==
    /\ user_query \in KgQueries
    /\ kg_definitional_data \in KgDictionaries
    /\ mim2gene = <<>>
    /\ mim_gene_data = <<>>
    /\ loaded = TRUE
    /\ disease = Unset
    /\ identifier = Unset
    /\ blazegraph_context = Unset
    /\ mim_gene_context = NotCalled
    /\ NoSession

GetBlazegraphContext ==
    /\ blazegraph_context = Unset
    /\ disease' = extract_disease_from_query(user_query)
    /\ blazegraph_context' = get_blazegraph_context(user_query)
    /\ UNCHANGED <<mim2gene, kg_definitional_data, mim_gene_data, loaded, history,
                   user_query, identifier, docs, evidence_list,
                   mim_gene_context, prompt_input, llm_outcome, run>>

SpecKg == InitKg /\ [][GetBlazegraphContext]_vars

(***************************************************************************)
(* load_resources, extract_gene_or_mim_from_query and get_mim_gene_context *)
(* over the reference files                                                *)
(***************************************************************************)
InitGene ==
    /\ mim2gene \in GeneFiles
    /\ kg_definitional_data = <<>>
    /\ mim_gene_data = <<>>
    /\ loaded = FALSE
    /\ user_query = Unset
    /\ disease = Unset
    /\ identifier = Unset
    /\ blazegraph_context = Unset
    /\ mim_gene_context = NotCalled
    /\ NoSession

LoadResources ==
    /\ ~loaded
    /\ loaded' = TRUE
    /\ mim_gene_data' = load_resources(mim2gene)
    /\ UNCHANGED <<mim2gene, kg_definitional_data, history, user_query, disease,
                   identifier, docs, evidence_list, blazegraph_context,
                   mim_gene_context, prompt_input, llm_outcome, run>>

ExtractGeneOrMim(q) ==
    /\ loaded
    /\ identifier = Unset
    /\ user_query' = q
    /\ identifier' = extract_gene_or_mim_from_query(q)
    /\ UNCHANGED <<mim2gene, kg_definitional_data, mim_gene_data, loaded, history,
                   disease, docs, evidence_list, blazegraph_context,
                   mim_gene_context, prompt_input, llm_outcome, run>>

GetMimGeneContext ==
    /\ identifier # Unset
    /\ mim_gene_context = NotCalled
    /\ mim_gene_context' = get_mim_gene_context(user_query)
    /\ UNCHANGED <<mim2gene, kg_definitional_data, mim_gene_data, loaded, history,
                   user_query, disease, identifier, docs, evidence_list,
                   blazegraph_context, prompt_input, llm_outcome, run>>

NextGene ==
    \/ LoadResources
    \/ \E q \in GeneQueries : ExtractGeneOrMim(q)
    \/ GetMimGeneContext

SpecGene == InitGene /\ [][NextGene]_vars

(***************************************************************************)
(* Properties                                                              *)
(***************************************************************************)
Last(h) == h[Len(h)]

IsPrefix(a, b) == Len(a) <= Len(b) /\ SubSeq(b, 1, Len(a)) = a

EndsWith(s, p) == Len(s) >= Len(p) /\ SubSeq(s, Len(s) - Len(p) + 1, Len(s)) = p

\* The surface forms a query is matched against, in the order of matching:
\* the 20 disease names, then the loose synonyms.
SurfaceForms ==
    [i \in DOMAIN DISEASE_LIST |-> [form |-> Lower(DISEASE_LIST[i]), disease |-> DISEASE_LIST[i]]]
    \o << [form |-> "huntington", disease |-> "Huntington's Disease"],
          [form |-> "sma", disease |-> "Spinal Muscular Atrophy"],
          [form |-> "nf1", disease |-> "Neurofibromatosis type 1"],
          [form |-> "aatd", disease |-> "Alpha-1 Antitrypsin Deficiency"],
          [form |-> "alpha-1 antitrypsin", disease |-> "Alpha-1 Antitrypsin Deficiency"],
          [form |-> "fxs", disease |-> "Fragile X Syndrome"],
          [form |-> "fragile x", disease |-> "Fragile X Syndrome"],
          [form |-> "pku", disease |-> "Phenylketonuria"] >>

\* the surface forms that appear in q, case-insensitively
Appearing(q) == {i \in DOMAIN SurfaceForms : In(SurfaceForms[i].form, Lower(q))}

\* C1 as stated: the extracted disease is the disease of every name or synonym
\* that appears in the query, and None when none appears.
C1_ExactDisease ==
    disease # Unset =>
        IF Appearing(user_query) = {} THEN disease = None
        ELSE \A i \in Appearing(user_query) : disease = SurfaceForms[i].disease

\* C1 amended: None when no name or synonym appears; otherwise the disease of
\* the first appearing form in matching order (names in table order, then the
\* synonyms), so the disease of some appearing form, and of all of them when
\* they belong to one disease.
C1_FirstAppearingDisease ==
    disease # Unset =>
        IF Appearing(user_query) = {} THEN disease = None
        ELSE disease = SurfaceForms[Min(Appearing(user_query))].disease

\* A query naming one disease in full and another by its synonym.
C1_Witness ==
    /\ disease = "Cystic Fibrosis"
    /\ In("pku", Lower(user_query))

\* token shapes: a letter followed by two or more letters or digits, in any
\* letter case; upper-case letters and digits only; six digits
LetterLedToken(w) ==
    /\ Len(w) >= 3
    /\ Head(w) \in Letters
    /\ AllIn(w, Letters \cup Digits)

UppercaseToken(w) ==
    /\ AllIn(w, UpperLetters \cup Digits)
    /\ \E i \in 1..Len(w) : CharAt(w, i) \in UpperLetters

SixDigitToken(w) == Len(w) = 6 /\ AllIn(w, Digits)

\* C2 as stated: an identifier is returned exactly when the query holds a
\* 6-digit token or an upper-case alphanumeric token that is a key of the table,
\* and it is such a token.
C2_UppercaseOnly ==
    identifier # Unset =>
        LET ws == Words(user_query)
            hits == {i \in DOMAIN ws :
                        /\ SixDigitToken(ws[i]) \/ UppercaseToken(ws[i])
                        /\ ws[i] \in DOMAIN mim_gene_data}
        IN  IF hits = {} THEN identifier = None
            ELSE identifier \in {ws[i] : i \in hits}

\* C2 amended: the identifier is the first 6-digit token that is a key; failing
\* that, the upper-casing of the first token made of a letter followed by at
\* least two letters or digits, in any letter case, whose upper-casing is a key;
\* failing that, None.
C2_AnyCaseToken ==
    identifier # Unset =>
        LET ws == Words(user_query)
            mims == {i \in DOMAIN ws : SixDigitToken(ws[i]) /\ ws[i] \in DOMAIN mim_gene_data}
            syms == {i \in DOMAIN ws :
                        LetterLedToken(ws[i]) /\ Upper(ws[i]) \in DOMAIN mim_gene_data}
        IN  IF mims # {} THEN identifier = ws[Min(mims)]
            ELSE IF syms # {} THEN identifier = Upper(ws[Min(syms)])
            ELSE identifier = None

\* A lower-case token found under its upper-case key.
C2_Witness ==
    /\ user_query = "what does cftr do?"
    /\ identifier = "CFTR"

\* C3: get_mim_gene_context never fails; it returns the four-field block or the
\* sentinel.
C3_NeverFails ==
    mim_gene_context # NotCalled =>
        /\ ~mim_gene_context.raised
        /\ \/ mim_gene_context.value = NoMimData
           \/ /\ StartsWith(mim_gene_context.value, "MIM Number: ")
              /\ In("\nMIM Entry Type: ", mim_gene_context.value)
              /\ In("\nEntrez Gene ID: ", mim_gene_context.value)
              /\ In("\nApproved Gene Symbol: ", mim_gene_context.value)

\* C4 as stated: after llm.invoke raised, the assistant message's content is the
\* error's description and nothing else.
C4_Verbatim ==
    run = "llm_error" =>
        /\ Last(history).role = "assistant"
        /\ Last(history).content = llm_outcome.value

\* C4 amended: after llm.invoke raised, the run ends with an assistant message
\* for the query whose content is "An error occurred: " followed by the error's
\* description.
C4_PrefixedDescription ==
    run = "llm_error" =>
        /\ Last(history).role = "assistant"
        /\ Last(history).question = user_query
        /\ Last(history).content = "An error occurred: " \o llm_outcome.value

C4_Witness ==
    /\ run = "llm_error"
    /\ llm_outcome = Raised("Connection error.")
    /\ Len(history) = 2

IsKgBlock(s) ==
    /\ StartsWith(s, "Disease Name: ")
    /\ In("\nURI: ", s)
    /\ In("\nDescription: ", s)
    /\ In("\nDB Xref: ", s)
    /\ In("\nParent Class: ", s)

HasKgEntry(d) == d # None /\ OrdoUri(d) \in DOMAIN kg_definitional_data

\* C5 as stated: the sentinel exactly when no disease is extracted or its URI
\* has no entry; the five-field block whenever there is an entry.
C5_BlockForEveryEntry ==
    blazegraph_context # Unset =>
        /\ blazegraph_context = NoKgData <=> ~HasKgEntry(disease)
        /\ HasKgEntry(disease) => IsKgBlock(blazegraph_context)

\* C5 amended: the sentinel exactly when no disease is extracted, its URI has no
\* entry, or the entry holds no field; the five-field block for every extracted
\* disease whose entry holds at least one field.
C5_BlockForNonEmptyEntry ==
    blazegraph_context # Unset =>
        LET filled == /\ HasKgEntry(disease)
                      /\ DOMAIN kg_definitional_data[OrdoUri(disease)] # {}
        IN  /\ blazegraph_context = NoKgData <=> ~filled
            /\ filled => IsKgBlock(blazegraph_context)

\* The extracted disease has an entry, and the entry is empty.
C5_Witness ==
    /\ blazegraph_context = NoKgData
    /\ disease = "Hemophilia A"
    /\ HasKgEntry(disease)

\* C6: a step either leaves the earlier history as a prefix of the later one,
\* or is the reset, which leaves it empty.
C6_AppendOnly ==
    [][IF run' = "reset" THEN history' = <<>> ELSE IsPrefix(history, history')]_vars

\* Two queries handled one after the other.
C6_Witness ==
    /\ Len(history) = 4
    /\ history[1].content # history[3].content

\* the tab-separated fields of line i, as load_resources splits them
RowOf(i) == Split(Strip(mim2gene[i]), "\t")

\* line i is parsed into the table's records: no comment, four fields or more
IsRow(i) == ~StartsWith(mim2gene[i], "#") /\ Len(RowOf(i)) >= 4

HasSymbolAndId(i) == IsRow(i) /\ RowOf(i)[3] # "" /\ RowOf(i)[4] # ""

SameRecordUnderBothKeys(i) ==
    /\ Upper(RowOf(i)[4]) \in DOMAIN mim_gene_data
    /\ RowOf(i)[3] \in DOMAIN mim_gene_data
    /\ mim_gene_data[Upper(RowOf(i)[4])] = mim_gene_data[RowOf(i)[3]]

\* C7 as stated: for every parsed row with a symbol and an external id, the
\* entries under the two keys are the same record, shared keys or not.
C7_SameRecord ==
    loaded => \A i \in DOMAIN mim2gene : HasSymbolAndId(i) => SameRecordUnderBothKeys(i)

\* C7 amended: it holds for every such row whose upper-cased symbol is not the
\* symbol of a later row and whose external id is neither the external id of an
\* earlier row nor the upper-cased symbol of another row; the record is then
\* that row's own.
C7_SameRecordUnlessShared ==
    loaded =>
        \A i \in DOMAIN mim2gene :
            (/\ HasSymbolAndId(i)
             /\ \A j \in DOMAIN mim2gene :
                   (IsRow(j) /\ j > i) => Upper(RowOf(j)[4]) # Upper(RowOf(i)[4])
             /\ \A j \in DOMAIN mim2gene :
                   (IsRow(j) /\ j < i) => RowOf(j)[3] # RowOf(i)[3]
             /\ \A j \in DOMAIN mim2gene :
                   (IsRow(j) /\ j # i) => Upper(RowOf(j)[4]) # RowOf(i)[3])
            => /\ SameRecordUnderBothKeys(i)
               /\ mim_gene_data[RowOf(i)[3]].mim_number = RowOf(i)[1]
               /\ mim_gene_data[RowOf(i)[3]].approved_gene_symbol = RowOf(i)[4]

\* Two rows with a symbol and an id each, sharing neither, loaded.
C7_Witness ==
    /\ loaded
    /\ Len(mim2gene) = 2
    /\ {"CFTR", "1080", "DMD", "100506"} \subseteq DOMAIN mim_gene_data

\* C8: the prompt ends with the gene context, the "Question: " line holding
\* exactly the user's query, and the "Answer:" line.
C8_QuestionSlot ==
    prompt_input # Unset =>
        EndsWith(prompt_input,
                 mim_gene_context.value \o "\n\nQuestion: " \o user_query \o "\nAnswer:\n")

\* A query that itself looks like template fields, answered.
C8_Witness ==
    /\ run = "answered"
    /\ user_query = "{context} {question}"
    /\ Len(docs) = 2

Answered == run \in {"answered", "llm_error"}

\* C9 as stated: one entry per retrieved document.
C9_EntryPerDocument ==
    Answered =>
        /\ Len(Last(history).evidence) = Len(docs)
        /\ Len(docs) <= K

\* C9 amended: one entry for each retrieved document that has a non-empty pmid
\* and a non-empty title, in retrieval order, made of the pmid and the first 100
\* characters of the title followed by "..."; so at most as many entries as
\* documents, and at most 10.
C9_EntryPerCitedDocument ==
    Answered =>
        LET ev == Last(history).evidence
            cited == {i \in DOMAIN docs :
                         /\ "pmid" \in DOMAIN docs[i].metadata
                         /\ "title" \in DOMAIN docs[i].metadata
                         /\ docs[i].metadata.pmid # ""
                         /\ docs[i].metadata.title # ""}
            rank(i) == Cardinality({j \in cited : j <= i})
        IN  /\ Len(ev) = Cardinality(cited)
            /\ Len(ev) <= Len(docs)
            /\ Len(docs) <= K
            /\ \A i \in cited :
                  LET t == docs[i].metadata.title
                  IN  ev[rank(i)] = "- PMID: " \o docs[i].metadata.pmid \o ", Title: "
                                    \o (IF Len(t) > 100 THEN SubSeq(t, 1, 100) ELSE t) \o "..."

\* Two documents retrieved, one of them without a pmid, one with a long title.
C9_Witness ==
    /\ run = "answered"
    /\ Len(docs) = 2
    /\ Len(Last(history).evidence) = 1
    /\ \E i \in DOMAIN docs : Len(docs[i].metadata.title) > 100

\* C10: the history is a sequence of (user, assistant) pairs, each assistant
\* message carrying the question of the user message before it.
C10_Paired ==
    /\ Len(history) % 2 = 0
    /\ \A i \in DOMAIN history :
          IF i % 2 = 1
          THEN history[i].role = "user"
          ELSE /\ history[i].role = "assistant"
               /\ history[i - 1].role = "user"
               /\ history[i].question = history[i - 1].content

====
